---- MODULE Spec2Model ----
(***************************************************************************)
(* Editor state manager of src/core/note_editor.py: the text buffer with   *)
(* undo/redo history (UndoRedoManager), the regex search/replace wrapper    *)
(* (SearchEngine), the tag index (TagManager) and the NoteEditor that owns  *)
(* them, together with its auto-save worker thread.                         *)
(*                                                                          *)
(* Text is a sequence of one-character strings.  Offsets are 0-based and    *)
(* half-open as in Python; TLA+ sequences are 1-based, so text[i+1] is the  *)
(* character at offset i.                                                   *)
(***************************************************************************)
EXTENDS Integers, Sequences, FiniteSets, TLC

\* ------------------------------------------------------------------ bounds

\* Longest buffer content explored.
MaxLen == 2
\* Number of foreground API calls explored in one behaviour.
MaxOps == 4
\* Capacity of the history deques.  NoteEditor builds its UndoRedoManager with
\* the default max_history (100, src/core/note_editor.py:49 and :248); the model
\* explores the same code with a capacity small enough for eviction to happen.
MaxHistory == 2
\* Number of modification callbacks registered in one behaviour.
MaxCallbacks == 2
\* Number of calls explored when only edits and undos are made.
MaxRunOps == 6
\* Number of push/undo/redo/clear calls explored on a stand-alone manager.
MaxHistOps == 5
\* Largest max_history given to a stand-alone manager.
MaxCapacity == 3
\* Number of tags a stand-alone TagManager holds at once.
MaxTags == 2
\* Largest usage counter explored.
MaxCount == 2
\* Number of calls explored on a stand-alone TagManager.
MaxTagOps == 6
\* Longest text and longest pattern given to a stand-alone SearchEngine.
MaxText == 3
MaxPattern == 2
\* Number of find_all calls made on each text and pattern.
MaxFindOps == 1
\* Number of calls explored when the buffer is searched and replaced in.
MaxSearchOps == 4
\* Number of foreground calls explored under fair scheduling.
MaxLiveOps == 3
\* Number of calls explored when ranges are deleted.
MaxDeleteOps == 4

\* ------------------------------------------------------------------ helpers

None == "None"

Min(a, b) == IF a <= b THEN a ELSE b

Max(a, b) == IF a >= b THEN a ELSE b

\* Python s[i:j] for 0 <= i, j (offsets beyond the end are clamped, i >= j
\* gives the empty string).
Slice(s, i, j) == SubSeq(s, Min(i, Len(s)) + 1, Min(j, Len(s)))

\* Python s[i:] for 0 <= i.
SliceFrom(s, i) == Slice(s, i, Len(s))

\* The last n elements of s, in order.
LastN(s, n) == SubSeq(s, Len(s) - Min(n, Len(s)) + 1, Len(s))

\* str.lower() on the model's alphabet.
Lower(c) == IF c = "A" THEN "a" ELSE IF c = "B" THEN "b" ELSE c

\* ------------------------------------------------------------------ EditorState

\* The snapshot dataclass.  Its timestamp field takes no part in __eq__ and is
\* not modelled, so record equality is the dataclass equality.
EditorState(c, cur, tags) == [content |-> c, cursor_position |-> cur, tags |-> tags]

\* ------------------------------------------------------------------ UndoRedoManager

\* deque(maxlen=n).append(x): the oldest entry is dropped at capacity.
DequeAppend_NoEvict(d, x, n) == Append(d, x)

DequeAppend(d, x, n) == LastN(Append(d, x), n)

\* UndoRedoManager.push: the new pair [undo_stack, redo_stack].
UM_push_KeepRedo(u, r, state, n) == [undo_stack |-> DequeAppend(u, state, n), redo_stack |-> r]

UM_push(u, r, state, n) == [undo_stack |-> DequeAppend(u, state, n), redo_stack |-> <<>>]

\* UndoRedoManager.undo on a non-empty undo stack: the stacks after the call
\* and the state returned.
UM_undo_Oldest(u, r, n) ==
    [undo_stack |-> Tail(u), redo_stack |-> DequeAppend(r, Head(u), n), state |-> Head(u)]

UM_undo(u, r, n) ==
    [undo_stack |-> SubSeq(u, 1, Len(u) - 1),
     redo_stack |-> DequeAppend(r, u[Len(u)], n),
     state      |-> u[Len(u)]]

\* UndoRedoManager.redo on a non-empty redo stack.
UM_redo_NoPop(u, r, n) ==
    [undo_stack |-> DequeAppend(u, r[Len(r)], n), redo_stack |-> r, state |-> r[Len(r)]]

UM_redo(u, r, n) ==
    [undo_stack |-> DequeAppend(u, r[Len(r)], n),
     redo_stack |-> SubSeq(r, 1, Len(r) - 1),
     state      |-> r[Len(r)]]

\* ------------------------------------------------------------------ SearchEngine

\* Patterns are non-empty literals over the alphabet, or contain "[", which
\* never closes in the patterns explored: re.compile raises re.error on them.
ValidPattern(p) == \A i \in 1..Len(p) : p[i] # "["

\* One character of the text against one of a literal pattern, under
\* re.IGNORECASE unless case_sensitive.
CharMatch(c, p, cs) == IF cs THEN c = p ELSE Lower(c) = Lower(p)

\* The pattern matches the text at offset i.
MatchAt(text, pat, cs, i) ==
    /\ i + Len(pat) <= Len(text)
    /\ \A k \in 1..Len(pat) : CharMatch(text[i + k], pat[k], cs)

\* regex.finditer from offset i: leftmost, non-overlapping matches.
RECURSIVE FindFrom(_, _, _, _)
FindFrom(text, pat, cs, i) ==
    IF i + Len(pat) > Len(text) THEN <<>>
    ELSE IF MatchAt(text, pat, cs, i)
         THEN <<(<<i, i + Len(pat)>>)>> \o FindFrom(text, pat, cs, i + Len(pat))
         ELSE FindFrom(text, pat, cs, i + 1)

\* SearchEngine.find_all: the (start, end) pairs, [] for an invalid pattern.
\* Every offset where the pattern occurs, overlapping or not (not what
\* finditer yields).
find_all_Overlapping(text, pat, cs) ==
    IF ValidPattern(pat)
    THEN SelectSeq([i \in 1..Len(text) |-> <<i - 1, i - 1 + Len(pat)>>],
                   LAMBDA m : MatchAt(text, pat, cs, m[1]))
    ELSE <<>>

find_all(text, pat, cs) == IF ValidPattern(pat) THEN FindFrom(text, pat, cs, 0) ELSE <<>>

\* SearchEngine.find_next, lines 140-144: the first match of find_all that
\* starts at or after from_position, as a list of one pair, the empty list
\* standing for None.
find_next(text, pat, cs, from_position) ==
    LET m == find_all(text, pat, cs)
        later == {k \in 1..Len(m) : m[k][1] >= from_position}
    IN  IF later = {} THEN <<>> ELSE <<m[CHOOSE k \in later : \A j \in later : k <= j]>>

\* regex.sub(replacement, text, count) from offset i; limit = -1 is "all".
RECURSIVE SubFrom(_, _, _, _, _, _)
SubFrom(text, pat, repl, cs, i, limit) ==
    IF limit = 0 \/ i + Len(pat) > Len(text) THEN SliceFrom(text, i)
    ELSE IF MatchAt(text, pat, cs, i)
         THEN repl \o SubFrom(text, pat, repl, cs, i + Len(pat),
                              IF limit > 0 THEN limit - 1 ELSE limit)
         ELSE <<text[i + 1]>> \o SubFrom(text, pat, repl, cs, i + 1, limit)

\* SearchEngine.replace: uses the case sensitivity the engine recorded at its
\* last find_all; the text unchanged for an invalid pattern.
engine_replace(text, pat, repl, replace_all, cs) ==
    IF ValidPattern(pat)
    THEN SubFrom(text, pat, repl, cs, 0, IF replace_all THEN -1 ELSE 1)
    ELSE text

\* What NoteEditor.replace returns (lines 464-476, 487) on a buffer holding
\* text, with an engine that has recorded the case sensitivity cs: the count
\* and the content the buffer holds after the call.
replace_outcome(text, pat, repl, replace_all, cs) ==
    LET new   == engine_replace(text, pat, repl, replace_all, cs)
        count == Len(find_all(text, pat, FALSE)) - Len(find_all(new, pat, FALSE))
    IN  [count |-> count, content |-> IF count > 0 THEN new ELSE text]

\* ------------------------------------------------------------------ TagManager

\* tag_index is a dict: its keys in insertion order, each with its counter.
\* The model keeps it as a sequence of <<name, count>> pairs.
HasTag(ti, t) == \E i \in 1..Len(ti) : ti[i][1] = t

\* TagManager.get_all_tags: list(self.tag_index.keys()).
get_all_tags(ti) == [i \in 1..Len(ti) |-> ti[i][1]]

\* TagManager.add_tag: the table after the call (unchanged when it fails).
\* Without the membership test of line 189 the assignment of line 190 would
\* reset the counter of a tag already present.
TM_add_tag_NoCheck(ti, t) ==
    IF t = "" THEN ti
    ELSE IF HasTag(ti, t) THEN [i \in 1..Len(ti) |-> IF ti[i][1] = t THEN <<t, 0>> ELSE ti[i]]
    ELSE Append(ti, <<t, 0>>)

TM_add_tag(ti, t) == IF t # "" /\ ~HasTag(ti, t) THEN Append(ti, <<t, 0>>) ELSE ti

\* TagManager.remove_tag: the table without the entry of t.
TM_remove_tag(ti, t) == SelectSeq(ti, LAMBDA e : e[1] # t)

\* TagManager.increment_tag_usage: the counter of t, if present, plus one.
TM_increment_tag_usage(ti, t) ==
    [i \in 1..Len(ti) |-> IF ti[i][1] = t THEN <<t, ti[i][2] + 1>> ELSE ti[i]]

\* sorted(items, key=count, reverse=True) is stable: an item goes after every
\* item already placed whose count is greater or equal.
InsertByCount(s, e) ==
    LET k == Cardinality({i \in 1..Len(s) : s[i][2] >= e[2]})
    IN  SubSeq(s, 1, k) \o <<e>> \o SubSeq(s, k + 1, Len(s))

RECURSIVE SortedFrom(_, _, _)
SortedFrom(ti, i, acc) ==
    IF i > Len(ti) THEN acc ELSE SortedFrom(ti, i + 1, InsertByCount(acc, ti[i]))

sorted_tags(ti) == SortedFrom(ti, 1, <<>>)

\* The limit argument left out (limit=None); limits given are >= 0.
NoLimit == -1

\* TagManager.get_tags_by_frequency(limit), line 225: the slice is taken only
\* when limit is truthy, which neither None nor 0 is.
get_tags_by_frequency(ti, limit) ==
    IF limit = NoLimit \/ limit = 0 THEN sorted_tags(ti)
    ELSE Slice(sorted_tags(ti), 0, limit)

\* ------------------------------------------------------------------ callbacks

\* The callables the model registers: "cb_ok" returns, "cb_raise" raises an
\* Exception on every call.
CallbackRaises(cb) == cb = "cb_raise"

\* NoteEditor._trigger_modification_callbacks: the callbacks it invokes, in
\* order, and whether an exception leaves the method.
TriggerCallbacks_NoIsolation(cbs) ==
    LET bad == {i \in 1..Len(cbs) : CallbackRaises(cbs[i])}
        stop == IF bad = {} THEN Len(cbs) ELSE CHOOSE i \in bad : \A j \in bad : i <= j
    IN  [invoked |-> SubSeq(cbs, 1, stop), raised |-> bad # {}]

TriggerCallbacks(cbs) == [invoked |-> cbs, raised |-> FALSE]

\* What each invoked callback can observe of the editor at the time it runs.
CallbackLog(invoked, c, cur, st) ==
    [i \in 1..Len(invoked) |->
        [cb |-> invoked[i], content |-> c, cursor_position |-> cur, current_state |-> st]]

\* "cb_reenter" is a save callback that calls a locking public operation of
\* the editor (export_as_json, which calls get_tags) on the thread that runs
\* it, and returns.
CallbackReenters(cb) == cb = "cb_reenter"

\* threading.RLock (line 268): a thread acquires the lock when it is free or
\* when the thread itself owns it.
LockAcquirable_NonReentrant(owner, thread) == owner = "free"

LockAcquirable(owner, thread) == owner = "free" \/ owner = thread

\* NoteEditor.save, line 564: the save callback runs iff one is configured and
\* the buffer is modified.
SaveInvokes_Always(cb, modified) == cb # None

SaveInvokes(cb, modified) == cb # None /\ modified

\* NoteEditor.save when the callback raises: lines 566-567 are not reached, so
\* is_modified and last_save_time keep their values.
SaveFailState_Cleared(modified, saved) == [is_modified |-> FALSE, last_save_time |-> saved + 1]

SaveFailState(modified, saved) == [is_modified |-> modified, last_save_time |-> saved]

\* NoteEditor.save, lines 566-567, after the callback returned (or was skipped).
SaveDoneState_KeepModified(modified, saved) == [is_modified |-> modified, last_save_time |-> saved + 1]

SaveDoneState(modified, saved) == [is_modified |-> FALSE, last_save_time |-> saved + 1]

\* ------------------------------------------------------------------ inputs

\* The position argument of insert_text or search_next left out (None);
\* offsets given explicitly are >= 0.
NoPosition == -1

\* Texts given to set_content.
ContentInputs == {c \in {<<>>, <<"A", "b">>, <<"a", "b", "a">>} : Len(c) <= MaxLen}

\* Texts given to insert_text.
TextInputs == {<<"a">>}

\* Offsets given to insert_text and set_cursor_position.
Positions == {0, MaxLen}

\* (start, end) pairs given to delete_range.
RangeInputs == {<<0, 1>>, <<1, MaxLen>>}

\* Patterns given to search and replace: a literal and an invalid one.
PatternInputs == {<<"a">>, <<"[">>}

\* Replacement texts: one without the pattern "a", one containing it.
ReplacementInputs == {<<"b">>, <<"a", "a">>}

TagInputs == {"x"}

\* The letters of the texts and patterns given to a stand-alone SearchEngine.
Letters == {"a", "A", "b"}

TextsUpTo(n) == UNION {[1..k -> Letters] : k \in 0..n}

\* Texts searched by a stand-alone SearchEngine: every text up to MaxText
\* letters, and a longer one with a third letter.
EngineTexts == TextsUpTo(MaxText) \cup {<<"a", "b", "c", "a", "b", "c">>}

\* Patterns: every non-empty literal up to MaxPattern letters, and an
\* invalid one.
EnginePatterns == (TextsUpTo(MaxPattern) \ {<<>>}) \cup {<<"[">>}

\* Contents, patterns and replacements of the search-and-replace scenario.
SearchTexts == {c \in {<<"a", "A">>, <<"a", "a", "b">>, <<"a", "b", "a", "b">>} :
                    Len(c) <= MaxText}

SearchPatterns == {<<"a">>, <<"a", "b">>, <<"[">>}

SearchReplacements == {<<>>, <<"b">>, <<"a", "a">>}

\* from_position arguments of search_next.
FromPositions == {NoPosition, 1}

\* Names given to a stand-alone TagManager; the empty name is refused.
TagNames == {"", "x", "y", "z"}

\* Limits given to get_tags_by_frequency.
LimitInputs == {NoLimit} \cup (0..MaxTags)

ModificationCallbacks == {"cb_ok", "cb_raise"}

SaveCallbacks == {"cb_ok", "cb_raise"}

\* Offsets given to delete_range(start, end), in either order.
Offsets == 0..MaxLen

\* Save callbacks configured under fair scheduling.
LiveCallbacks == {"cb_ok", "cb_raise", "cb_reenter"}

\* ------------------------------------------------------------------ state

VARIABLES
    content,                \* NoteEditor.content
    cursor_position,        \* NoteEditor.cursor_position
    is_modified,            \* NoteEditor.is_modified
    current_state,          \* NoteEditor.current_state
    undo_stack,             \* NoteEditor.undo_redo.undo_stack
    redo_stack,             \* NoteEditor.undo_redo.redo_stack
    max_history,            \* NoteEditor.undo_redo.max_history
    tag_index,              \* NoteEditor.tag_manager.tag_index
    case_sensitive,         \* NoteEditor.search_engine.case_sensitive
    last_search,            \* NoteEditor.search_engine.last_search
    modification_callbacks, \* NoteEditor.modification_callbacks
    on_auto_save,           \* NoteEditor.on_auto_save
    last_save_time,         \* NoteEditor.last_save_time, as a logical instant
    stop_auto_save,         \* NoteEditor._stop_auto_save
    lock,                   \* owner of NoteEditor._lock: "free", "main", "worker"
    main_pc,                \* where the foreground caller is
    worker_pc,              \* where the auto-save thread is ("off": none started)
    budget,                 \* number of foreground calls the behaviour explores
    nops,                   \* history variable: foreground calls made so far
    last,                   \* history variable: the latest foreground call
    run,                    \* history variable: the current edits-then-undos run
    persist,                \* history variable: save-callback invocations
    pushlog                 \* history variable: pushes onto a stand-alone manager

editor == <<content, cursor_position, is_modified, current_state, tag_index,
            case_sensitive, last_search, modification_callbacks, on_auto_save,
            last_save_time, stop_auto_save, lock, main_pc, worker_pc>>

history == <<undo_stack, redo_stack, max_history>>

ghost == <<budget, nops, last, run, persist>>

vars == <<editor, history, ghost, pushlog>>

\* The summary last keeps of the call before it.
NoPrev == [kind |-> "other", ok |-> TRUE, raised |-> FALSE, pushed |-> FALSE,
           changed |-> FALSE, cb_calls |-> 0, after_undo |-> FALSE]

\* No text: the value of last.before except right after a successful undo.
NoView == [content |-> <<>>, cursor_position |-> 0]

NoCall == [op |-> "init", ok |-> TRUE, raised |-> FALSE, count |-> 0, pattern |-> <<>>,
           calls |-> <<>>, cb_calls |-> 0, pushed |-> FALSE, changed |-> FALSE,
           save_state |-> TRUE, modified0 |-> FALSE, before |-> NoView, prev |-> NoPrev,
           tag |-> "", limit |-> NoLimit, result |-> <<>>, text |-> <<>>,
           case_sensitive |-> FALSE]

\* NoteEditor.__init__ (lines 241-277); the worker thread is started iff
\* auto_save_interval > 0.
InitFields(auto_save_enabled, calls, capacity) ==
    /\ budget = calls
    /\ content = <<>>
    /\ cursor_position = 0
    /\ is_modified = FALSE
    /\ current_state = EditorState(<<>>, 0, <<>>)
    /\ undo_stack = <<>>
    /\ redo_stack = <<>>
    /\ max_history = capacity
    /\ tag_index = <<>>
    /\ case_sensitive = FALSE
    /\ last_search = <<>>
    /\ modification_callbacks = <<>>
    /\ on_auto_save = None
    /\ last_save_time = 0
    /\ stop_auto_save = FALSE
    /\ lock = "free"
    /\ main_pc = "idle"
    /\ worker_pc = IF auto_save_enabled THEN "loop" ELSE "off"
    /\ nops = 0
    /\ run = [pre |-> <<>>, undos |-> 0]
    /\ persist = [calls |-> 0, raised |-> 0, arg |-> None, steady |-> FALSE]
    /\ pushlog = [pushed |-> <<>>, fresh |-> TRUE]

InitEditor(auto_save_enabled, calls, capacity) ==
    /\ InitFields(auto_save_enabled, calls, capacity)
    /\ last = NoCall

\* A NoteEditor built with auto_save_interval = 0.
Init == InitEditor(FALSE, MaxOps, MaxHistory)

\* ------------------------------------------------------------------ history variables

\* The foreground caller may start a call that takes the editor lock.
\* A caller that does not wait for the lock (not the code's).
CanCall_NoLock == main_pc = "idle" /\ nops < budget

CanCall == main_pc = "idle" /\ nops < budget /\ lock = "free"

\* The kinds of call the summary tells apart.
Kind(op) ==
    IF op \in {"undo", "redo", "replace", "save", "shutdown"} THEN op
    ELSE IF op \in {"set_content", "insert_text", "delete_range"} THEN "edit"
    ELSE "other"

Summary(l) == [kind |-> Kind(l.op), ok |-> l.ok, raised |-> l.raised, pushed |-> l.pushed,
               changed |-> l.changed, cb_calls |-> l.cb_calls,
               after_undo |-> l.prev.kind = "undo" /\ l.prev.ok]

Call(op) == [NoCall EXCEPT !.op = op, !.prev = Summary(last)]

Record(call) ==
    /\ nops' = nops + 1
    /\ last' = call
    /\ budget' = budget

\* run: the contents before each of the latest consecutive editing calls
\* (set_content, insert_text, delete_range), and the number of undo calls
\* made right after them.
RunEdit(pushed, save_state) ==
    LET e == [content |-> content, pushed |-> pushed, save_state |-> save_state]
    IN  run' = IF run.undos = 0 THEN [run EXCEPT !.pre = Append(@, e)]
               ELSE [pre |-> <<e>>, undos |-> 0]

RunUndo == run' = IF run.pre = <<>> THEN run ELSE [run EXCEPT !.undos = @ + 1]

RunOther == run' = [pre |-> <<>>, undos |-> 0]

\* persist: the save-callback invocations since the buffer was last modified
\* (calls), those of them that raised, the content passed to the latest one
\* (arg), and whether the non-failing callback has been the one configured
\* ever since that modification (steady).
PersistReset == persist' = [persist EXCEPT !.calls = 0, !.raised = 0,
                                           !.steady = (on_auto_save = "cb_ok")]

\* What the modification callbacks observe: they are triggered by the last
\* statement of each mutating method, after all its assignments.
NotifyView_Before(pre, post) == pre

NotifyView(pre, post) == post

View(c, cur, st) == [content |-> c, cursor_position |-> cur, current_state |-> st]

Notified(pre, post) ==
    LET t == TriggerCallbacks(modification_callbacks)
        v == NotifyView(pre, post)
    IN  [calls |-> CallbackLog(t.invoked, v.content, v.cursor_position, v.current_state),
         raised |-> t.raised]

Here == View(content, cursor_position, current_state)

\* ------------------------------------------------------------------ NoteEditor: editing

\* NoteEditor.set_content, line 313: the previous state is pushed iff
\* save_state is set and the content differs.
ShouldPush_Always(save_state, old, new) == TRUE

ShouldPush(save_state, old, new) == save_state /\ old # new

\* NoteEditor.set_content(content, save_state), lines 312-324.
SetContent(c, save_state) ==
    /\ CanCall
    /\ LET pushes == ShouldPush(save_state, content, c)
           h  == IF pushes THEN UM_push(undo_stack, redo_stack, current_state, max_history)
                 ELSE [undo_stack |-> undo_stack, redo_stack |-> redo_stack]
           st == EditorState(c, cursor_position, get_all_tags(tag_index))
           n  == Notified(Here, View(c, cursor_position, st))
       IN  /\ undo_stack' = h.undo_stack
           /\ redo_stack' = h.redo_stack
           /\ content' = c
           /\ is_modified' = TRUE
           /\ current_state' = st
           /\ Record([Call("set_content") EXCEPT !.calls = n.calls, !.raised = n.raised,
                                                 !.pushed = pushes, !.changed = (c # content),
                                                 !.save_state = save_state])
           /\ RunEdit(pushes, save_state)
    /\ PersistReset
    /\ UNCHANGED <<cursor_position, max_history, tag_index, case_sensitive, last_search,
                   modification_callbacks, on_auto_save, last_save_time, stop_auto_save,
                   lock, main_pc, worker_pc, pushlog>>

\* NoteEditor.insert_text(text, position), lines 334-348; a position left out
\* is the cursor position.
InsertText(text, position) ==
    /\ CanCall
    /\ LET pos == IF position = NoPosition THEN cursor_position ELSE position
           h   == UM_push(undo_stack, redo_stack, current_state, max_history)
           c   == Slice(content, 0, pos) \o text \o SliceFrom(content, pos)
           cur == pos + Len(text)
           st  == EditorState(c, cur, get_all_tags(tag_index))
           n   == Notified(Here, View(c, cur, st))
       IN  /\ Len(c) <= MaxLen
           /\ undo_stack' = h.undo_stack
           /\ redo_stack' = h.redo_stack
           /\ content' = c
           /\ cursor_position' = cur
           /\ is_modified' = TRUE
           /\ current_state' = st
           /\ Record([Call("insert_text") EXCEPT !.calls = n.calls, !.raised = n.raised,
                                                 !.pushed = TRUE, !.changed = (c # content)])
           /\ RunEdit(TRUE, TRUE)
    /\ PersistReset
    /\ UNCHANGED <<max_history, tag_index, case_sensitive, last_search,
                   modification_callbacks, on_auto_save, last_save_time, stop_auto_save,
                   lock, main_pc, worker_pc, pushlog>>

\* NoteEditor.delete_range(start, end), lines 358-370.
DeleteRange(start, end) ==
    /\ CanCall
    /\ LET h  == UM_push(undo_stack, redo_stack, current_state, max_history)
           c  == Slice(content, 0, start) \o SliceFrom(content, end)
           st == EditorState(c, start, get_all_tags(tag_index))
           n  == Notified(Here, View(c, start, st))
       IN  /\ Len(c) <= MaxLen
           /\ undo_stack' = h.undo_stack
           /\ redo_stack' = h.redo_stack
           /\ content' = c
           /\ cursor_position' = start
           /\ is_modified' = TRUE
           /\ current_state' = st
           /\ Record([Call("delete_range") EXCEPT !.calls = n.calls, !.raised = n.raised,
                                                  !.pushed = TRUE, !.changed = (c # content)])
           /\ RunEdit(TRUE, TRUE)
    /\ PersistReset
    /\ UNCHANGED <<max_history, tag_index, case_sensitive, last_search,
                   modification_callbacks, on_auto_save, last_save_time, stop_auto_save,
                   lock, main_pc, worker_pc, pushlog>>

\* NoteEditor.undo, lines 379-388.
Undo ==
    /\ CanCall
    /\ IF undo_stack # <<>>
       THEN LET h == UM_undo(undo_stack, redo_stack, max_history)
                n == Notified(Here, View(h.state.content, h.state.cursor_position, h.state))
            IN  /\ undo_stack' = h.undo_stack
                /\ redo_stack' = h.redo_stack
                /\ content' = h.state.content
                /\ cursor_position' = h.state.cursor_position
                /\ is_modified' = TRUE
                /\ current_state' = h.state
                /\ Record([Call("undo") EXCEPT !.calls = n.calls, !.raised = n.raised,
                                               !.before = [content |-> content,
                                                           cursor_position |-> cursor_position]])
                /\ PersistReset
       ELSE /\ Record([Call("undo") EXCEPT !.ok = FALSE])
            /\ UNCHANGED <<undo_stack, redo_stack, content, cursor_position, is_modified,
                           current_state, persist>>
    /\ RunUndo
    /\ UNCHANGED <<max_history, tag_index, case_sensitive, last_search,
                   modification_callbacks, on_auto_save, last_save_time, stop_auto_save,
                   lock, main_pc, worker_pc, pushlog>>

\* NoteEditor.redo, lines 397-406.
Redo ==
    /\ CanCall
    /\ IF redo_stack # <<>>
       THEN LET h == UM_redo(undo_stack, redo_stack, max_history)
                n == Notified(Here, View(h.state.content, h.state.cursor_position, h.state))
            IN  /\ undo_stack' = h.undo_stack
                /\ redo_stack' = h.redo_stack
                /\ content' = h.state.content
                /\ cursor_position' = h.state.cursor_position
                /\ is_modified' = TRUE
                /\ current_state' = h.state
                /\ Record([Call("redo") EXCEPT !.calls = n.calls, !.raised = n.raised])
                /\ PersistReset
       ELSE /\ Record([Call("redo") EXCEPT !.ok = FALSE])
            /\ UNCHANGED <<undo_stack, redo_stack, content, cursor_position, is_modified,
                           current_state, persist>>
    /\ RunOther
    /\ UNCHANGED <<max_history, tag_index, case_sensitive, last_search,
                   modification_callbacks, on_auto_save, last_save_time, stop_auto_save,
                   lock, main_pc, worker_pc, pushlog>>

\* NoteEditor.replace(pattern, replacement, replace_all), lines 461-487.  The
\* engine substitutes under the case sensitivity it recorded last; the two
\* find_all calls that count use the default (case-insensitive) and record it.
Replace(pattern, replacement, replace_all) ==
    /\ CanCall
    /\ LET h     == UM_push(undo_stack, redo_stack, current_state, max_history)
           new   == engine_replace(content, pattern, replacement, replace_all, case_sensitive)
           count == Len(find_all(content, pattern, FALSE)) - Len(find_all(new, pattern, FALSE))
           st    == EditorState(new, cursor_position, get_all_tags(tag_index))
           n     == Notified(Here, View(new, cursor_position, st))
           call  == [Call("replace") EXCEPT !.count = count, !.pushed = TRUE,
                                            !.pattern = pattern]
       IN  /\ undo_stack' = h.undo_stack
           /\ redo_stack' = h.redo_stack
           /\ IF count > 0
              THEN /\ Len(new) <= Max(MaxLen, Len(content))
                   /\ content' = new
                   /\ is_modified' = TRUE
                   /\ current_state' = st
                   /\ Record([call EXCEPT !.calls = n.calls, !.raised = n.raised,
                                           !.changed = (new # content)])
                   /\ PersistReset
              ELSE /\ Record([call EXCEPT !.ok = FALSE])
                   /\ UNCHANGED <<content, is_modified, current_state, persist>>
    /\ last_search' = pattern
    /\ case_sensitive' = FALSE
    /\ RunOther
    /\ UNCHANGED <<cursor_position, max_history, tag_index, modification_callbacks,
                   on_auto_save, last_save_time, stop_auto_save, lock, main_pc, worker_pc,
                   pushlog>>

\* NoteEditor.search(pattern, case_sensitive), lines 429-430: find_all records
\* the pattern and the case sensitivity in the engine.
Search(pattern, cs) ==
    /\ CanCall
    /\ last_search' = pattern
    /\ case_sensitive' = cs
    /\ Record([Call("search") EXCEPT !.count = Len(find_all(content, pattern, cs)),
                                     !.result = find_all(content, pattern, cs),
                                     !.pattern = pattern])
    /\ RunOther
    /\ UNCHANGED <<content, cursor_position, is_modified, current_state, history, tag_index,
                   modification_callbacks, on_auto_save, last_save_time, stop_auto_save,
                   lock, main_pc, worker_pc, persist, pushlog>>

\* NoteEditor.search_next(pattern, from_position), lines 444-446: find_next
\* searches under the case sensitivity the engine recorded last, and find_all
\* records it again together with the pattern.
SearchNext(pattern, from_position) ==
    /\ CanCall
    /\ LET pos == IF from_position = NoPosition THEN cursor_position ELSE from_position
       IN  Record([Call("search_next") EXCEPT
                       !.result = find_next(content, pattern, case_sensitive, pos),
                       !.pattern = pattern])
    /\ last_search' = pattern
    /\ RunOther
    /\ UNCHANGED <<content, cursor_position, is_modified, current_state, history, tag_index,
                   case_sensitive, modification_callbacks, on_auto_save, last_save_time,
                   stop_auto_save, lock, main_pc, worker_pc, persist, pushlog>>

\* NoteEditor.set_cursor_position(position), lines 553-554.
SetCursorPosition(position) ==
    /\ CanCall
    /\ cursor_position' = Max(0, Min(position, Len(content)))
    /\ Record(Call("set_cursor_position"))
    /\ RunOther
    /\ UNCHANGED <<content, is_modified, current_state, history, tag_index, case_sensitive,
                   last_search, modification_callbacks, on_auto_save, last_save_time,
                   stop_auto_save, lock, main_pc, worker_pc, persist, pushlog>>

\* NoteEditor.add_tag(tag), lines 499-503.
AddTag(tag) ==
    /\ CanCall
    /\ tag_index' = TM_add_tag(tag_index, tag)
    /\ Record([Call("add_tag") EXCEPT !.ok = (tag # "" /\ ~HasTag(tag_index, tag))])
    /\ RunOther
    /\ UNCHANGED <<content, cursor_position, is_modified, current_state, history,
                   case_sensitive, last_search, modification_callbacks, on_auto_save,
                   last_save_time, stop_auto_save, lock, main_pc, worker_pc, persist, pushlog>>

\* NoteEditor.remove_tag(tag), lines 515-519.
RemoveTag(tag) ==
    /\ CanCall
    /\ tag_index' = TM_remove_tag(tag_index, tag)
    /\ Record([Call("remove_tag") EXCEPT !.ok = HasTag(tag_index, tag)])
    /\ RunOther
    /\ UNCHANGED <<content, cursor_position, is_modified, current_state, history,
                   case_sensitive, last_search, modification_callbacks, on_auto_save,
                   last_save_time, stop_auto_save, lock, main_pc, worker_pc, persist, pushlog>>

\* NoteEditor.register_modification_callback(callback), lines 602-603.
RegisterModificationCallback(cb) ==
    /\ CanCall
    /\ Len(modification_callbacks) < MaxCallbacks
    /\ modification_callbacks' = Append(modification_callbacks, cb)
    /\ Record(Call("register_modification_callback"))
    /\ RunOther
    /\ UNCHANGED <<content, cursor_position, is_modified, current_state, history, tag_index,
                   case_sensitive, last_search, on_auto_save, last_save_time,
                   stop_auto_save, lock, main_pc, worker_pc, persist, pushlog>>

\* The owner of the editor assigns the on_auto_save attribute (line 265 only
\* declares it); a plain attribute write, outside the lock.
SetOnAutoSave(cb) ==
    /\ main_pc = "idle"
    /\ nops < budget
    /\ on_auto_save # cb
    /\ on_auto_save' = cb
    /\ persist' = [persist EXCEPT !.steady = FALSE]
    /\ Record(Call("set_on_auto_save"))
    /\ RunOther
    /\ UNCHANGED <<content, cursor_position, is_modified, current_state, history, tag_index,
                   case_sensitive, last_search, modification_callbacks, last_save_time,
                   stop_auto_save, lock, main_pc, worker_pc, pushlog>>

\* NoteEditor.clear_history, lines 607-608.
ClearHistory ==
    /\ CanCall
    /\ undo_stack' = <<>>
    /\ redo_stack' = <<>>
    /\ Record(Call("clear_history"))
    /\ RunOther
    /\ UNCHANGED <<editor, max_history, persist, pushlog>>

\* ------------------------------------------------------------------ NoteEditor: save

\* The body of NoteEditor.save (lines 563-567) is two steps of the thread that
\* runs it: SaveEnter takes the lock and runs the save callback if line 564
\* says so; SaveExit stamps the save, clears is_modified and releases the lock.
\* A callback that raises leaves the with-block: the lock is released and
\* SaveExit does not happen.
SaveRaises == SaveInvokes(on_auto_save, is_modified) /\ CallbackRaises(on_auto_save)

\* The callback invoked by save() is about to call back into the editor.
SaveReenters == SaveInvokes(on_auto_save, is_modified) /\ CallbackReenters(on_auto_save)

\* Where a thread is after entering save(): out again with the error, inside
\* the callback, or past it.
AfterSaveEnter(out, in_callback, past) ==
    IF SaveRaises THEN out ELSE IF SaveReenters THEN in_callback ELSE past

SaveEnter(thread) ==
    /\ lock = "free"
    /\ persist' = IF SaveInvokes(on_auto_save, is_modified)
                  THEN [persist EXCEPT
                            !.calls  = @ + 1,
                            !.raised = @ + (IF SaveRaises THEN 1 ELSE 0),
                            !.arg    = content]
                  ELSE persist
    /\ IF SaveRaises
       THEN LET f == SaveFailState(is_modified, last_save_time)
            IN  /\ is_modified' = f.is_modified
                /\ last_save_time' = f.last_save_time
                /\ lock' = "free"
       ELSE /\ lock' = thread
            /\ UNCHANGED <<is_modified, last_save_time>>

SaveExit(thread) ==
    /\ lock = thread
    /\ LET d == SaveDoneState(is_modified, last_save_time)
       IN  /\ is_modified' = d.is_modified
           /\ last_save_time' = d.last_save_time
    /\ lock' = "free"

SaveCalls == IF SaveInvokes(on_auto_save, is_modified) THEN 1 ELSE 0

\* The foreground caller calls save().
Save ==
    /\ CanCall
    /\ SaveEnter("main")
    /\ main_pc' = AfterSaveEnter("idle", "save_cb", "save_in")
    /\ Record([Call("save") EXCEPT !.ok = FALSE, !.raised = SaveRaises,
                                   !.cb_calls = SaveCalls])
    /\ RunOther
    /\ UNCHANGED <<content, cursor_position, current_state, history, tag_index,
                   case_sensitive, last_search, modification_callbacks, on_auto_save,
                   stop_auto_save, worker_pc, pushlog>>

\* The save callback, running on the foreground thread inside save(), calls
\* a locking operation of the editor: the call takes the lock again, runs,
\* releases it, and the callback returns.
SaveCallback ==
    /\ main_pc \in {"save_cb", "sd_save_cb"}
    /\ LockAcquirable(lock, "main")
    /\ main_pc' = IF main_pc = "save_cb" THEN "save_in" ELSE "sd_save_in"
    /\ UNCHANGED <<content, cursor_position, is_modified, current_state, history, tag_index,
                   case_sensitive, last_search, modification_callbacks, on_auto_save,
                   last_save_time, stop_auto_save, lock, worker_pc, ghost, pushlog>>

SaveReturn ==
    /\ main_pc = "save_in"
    /\ SaveExit("main")
    /\ main_pc' = "idle"
    /\ last' = [last EXCEPT !.ok = TRUE]
    /\ UNCHANGED <<content, cursor_position, current_state, history, tag_index,
                   case_sensitive, last_search, modification_callbacks, on_auto_save,
                   stop_auto_save, worker_pc, budget, nops, run, persist, pushlog>>

\* NoteEditor.shutdown, line 625: the stop flag is set outside the lock.
Shutdown ==
    /\ main_pc = "idle"
    /\ nops < budget
    /\ stop_auto_save' = TRUE
    /\ main_pc' = "sd_save"
    /\ Record([Call("shutdown") EXCEPT !.ok = FALSE, !.modified0 = is_modified])
    /\ RunOther
    /\ UNCHANGED <<content, cursor_position, is_modified, current_state, history, tag_index,
                   case_sensitive, last_search, modification_callbacks, on_auto_save,
                   last_save_time, lock, worker_pc, persist, pushlog>>

\* NoteEditor.shutdown, line 626: self.save().
ShutdownSave ==
    /\ main_pc = "sd_save"
    /\ SaveEnter("main")
    /\ main_pc' = AfterSaveEnter("idle", "sd_save_cb", "sd_save_in")
    /\ last' = [last EXCEPT !.raised = SaveRaises, !.cb_calls = SaveCalls]
    /\ UNCHANGED <<content, cursor_position, current_state, history, tag_index,
                   case_sensitive, last_search, modification_callbacks, on_auto_save,
                   stop_auto_save, worker_pc, budget, nops, run, pushlog>>

WorkerAlive == worker_pc \notin {"off", "done", "dead"}

\* The save of shutdown returns; line 627 decides whether to join the worker.
ShutdownSaveReturn ==
    /\ main_pc = "sd_save_in"
    /\ SaveExit("main")
    /\ main_pc' = IF WorkerAlive THEN "sd_join" ELSE "idle"
    /\ last' = [last EXCEPT !.ok = ~WorkerAlive]
    /\ UNCHANGED <<content, cursor_position, current_state, history, tag_index,
                   case_sensitive, last_search, modification_callbacks, on_auto_save,
                   stop_auto_save, worker_pc, budget, nops, run, persist, pushlog>>

\* NoteEditor.shutdown, line 628: join(timeout=5) returns when the worker has
\* ended or when the timeout has passed, whichever comes first.
ShutdownJoin ==
    /\ main_pc = "sd_join"
    /\ main_pc' = "idle"
    /\ last' = [last EXCEPT !.ok = TRUE]
    /\ UNCHANGED <<content, cursor_position, is_modified, current_state, history, tag_index,
                   case_sensitive, last_search, modification_callbacks, on_auto_save,
                   last_save_time, stop_auto_save, lock, worker_pc, budget, nops, run,
                   persist, pushlog>>

\* ------------------------------------------------------------------ auto-save worker

\* NoteEditor._auto_save_worker, line 291-292: the loop condition, then the sleep.
\* A loop that never looks at the stop flag (not the code's).
WorkerLoop_IgnoreStop ==
    /\ worker_pc = "loop"
    /\ worker_pc' = "check"
    /\ UNCHANGED <<content, cursor_position, is_modified, current_state, history, tag_index,
                   case_sensitive, last_search, modification_callbacks, on_auto_save,
                   last_save_time, stop_auto_save, lock, main_pc, ghost, pushlog>>

WorkerLoop ==
    /\ worker_pc = "loop"
    /\ worker_pc' = IF stop_auto_save THEN "done" ELSE "check"
    /\ UNCHANGED <<content, cursor_position, is_modified, current_state, history, tag_index,
                   case_sensitive, last_search, modification_callbacks, on_auto_save,
                   last_save_time, stop_auto_save, lock, main_pc, ghost, pushlog>>

\* Line 293: both flags are read without the lock.
WorkerCheck ==
    /\ worker_pc = "check"
    /\ worker_pc' = IF is_modified /\ ~stop_auto_save THEN "save" ELSE "loop"
    /\ UNCHANGED <<content, cursor_position, is_modified, current_state, history, tag_index,
                   case_sensitive, last_search, modification_callbacks, on_auto_save,
                   last_save_time, stop_auto_save, lock, main_pc, ghost, pushlog>>

\* Line 294: self.save(); an exception of the save callback ends the thread.
WorkerSave ==
    /\ worker_pc = "save"
    /\ SaveEnter("worker")
    /\ worker_pc' = AfterSaveEnter("dead", "save_cb", "save_in")
    /\ UNCHANGED <<content, cursor_position, current_state, history, tag_index,
                   case_sensitive, last_search, modification_callbacks, on_auto_save,
                   stop_auto_save, main_pc, budget, nops, last, run, pushlog>>

\* The same call made by the save callback on the worker thread.
WorkerSaveCallback ==
    /\ worker_pc = "save_cb"
    /\ LockAcquirable(lock, "worker")
    /\ worker_pc' = "save_in"
    /\ UNCHANGED <<content, cursor_position, is_modified, current_state, history, tag_index,
                   case_sensitive, last_search, modification_callbacks, on_auto_save,
                   last_save_time, stop_auto_save, lock, main_pc, ghost, pushlog>>

WorkerSaveReturn ==
    /\ worker_pc = "save_in"
    /\ SaveExit("worker")
    /\ worker_pc' = "loop"
    /\ UNCHANGED <<content, cursor_position, current_state, history, tag_index,
                   case_sensitive, last_search, modification_callbacks, on_auto_save,
                   stop_auto_save, main_pc, ghost, pushlog>>

\* ------------------------------------------------------------------ specifications

\* The editor without auto-save: one caller editing the buffer.
Next ==
    \/ \E c \in ContentInputs, b \in BOOLEAN : SetContent(c, b)
    \/ \E t \in TextInputs, p \in Positions \cup {NoPosition} : InsertText(t, p)
    \/ \E r \in RangeInputs : DeleteRange(r[1], r[2])
    \/ Undo
    \/ Redo
    \/ \E p \in PatternInputs, r \in ReplacementInputs, b \in BOOLEAN : Replace(p, r, b)
    \/ \E p \in PatternInputs, b \in BOOLEAN : Search(p, b)
    \/ \E p \in Positions : SetCursorPosition(p)
    \/ \E t \in TagInputs : AddTag(t)
    \/ \E t \in TagInputs : RemoveTag(t)
    \/ \E cb \in ModificationCallbacks : RegisterModificationCallback(cb)
    \/ ClearHistory

Spec == Init /\ [][Next]_vars

\* The same editor, with the caller only editing and undoing, for longer.
InitRun == InitEditor(FALSE, MaxRunOps, MaxHistory)

NextRun ==
    \/ \E c \in ContentInputs, b \in BOOLEAN : SetContent(c, b)
    \/ \E t \in TextInputs : InsertText(t, NoPosition)
    \/ DeleteRange(0, 1)
    \/ Undo

SpecRun == InitRun /\ [][NextRun]_vars

\* A NoteEditor built with auto_save_interval > 0: the foreground caller and
\* the auto-save worker thread.
InitAuto == InitEditor(TRUE, MaxOps, MaxHistory)

NextAuto ==
    \/ \E c \in ContentInputs : SetContent(c, TRUE)
    \/ Undo
    \/ \E cb \in SaveCallbacks \cup {None} : SetOnAutoSave(cb)
    \/ Save
    \/ SaveReturn
    \/ Shutdown
    \/ ShutdownSave
    \/ ShutdownSaveReturn
    \/ ShutdownJoin
    \/ WorkerLoop
    \/ WorkerCheck
    \/ WorkerSave
    \/ WorkerSaveReturn

SpecAuto == InitAuto /\ [][NextAuto]_vars

\* The same editor, with the caller setting the content and deleting ranges
\* whose two offsets come in either order.
InitDelete == InitEditor(FALSE, MaxDeleteOps, MaxHistory)

NextDelete ==
    \/ \E c \in ContentInputs : SetContent(c, TRUE)
    \/ \E start \in Offsets, end \in Offsets : DeleteRange(start, end)

SpecDelete == InitDelete /\ [][NextDelete]_vars

\* The same editor under fair scheduling: the worker thread keeps running
\* (it is a thread of its own), and a foreground call that has started runs
\* to its end.  The caller is never obliged to make another call.  Lock
\* acquisition needs no more than weak fairness here because the foreground
\* caller makes finitely many calls.
InitLive == InitEditor(TRUE, MaxLiveOps, MaxHistory)

NextLive ==
    \/ \E c \in ContentInputs : SetContent(c, TRUE)
    \/ \E cb \in LiveCallbacks : SetOnAutoSave(cb)
    \/ Save
    \/ SaveCallback
    \/ SaveReturn
    \/ Shutdown
    \/ ShutdownSave
    \/ ShutdownSaveReturn
    \/ ShutdownJoin
    \/ WorkerLoop
    \/ WorkerCheck
    \/ WorkerSave
    \/ WorkerSaveCallback
    \/ WorkerSaveReturn

Fairness ==
    /\ WF_vars(WorkerLoop)
    /\ WF_vars(WorkerCheck)
    /\ WF_vars(WorkerSave)
    /\ WF_vars(WorkerSaveCallback)
    /\ WF_vars(WorkerSaveReturn)
    /\ WF_vars(SaveCallback)
    /\ WF_vars(SaveReturn)
    /\ WF_vars(ShutdownSave)
    /\ WF_vars(ShutdownSaveReturn)
    /\ WF_vars(ShutdownJoin)

SpecAutoLive == InitLive /\ [][NextLive]_vars /\ Fairness

\* ------------------------------------------------------------------ UndoRedoManager alone

\* Snapshots pushed onto a stand-alone manager.
StateInputs == {EditorState(<<>>, 0, <<>>), EditorState(<<"a">>, 1, <<>>),
                EditorState(<<"a">>, 0, <<"x">>)}

\* UndoRedoManager(max_history), lines 56-58; the editor variables stay as
\* built.
InitHistory == \E n \in 0..MaxCapacity : InitEditor(FALSE, MaxHistOps, n)

HistoryFrame == UNCHANGED <<editor, max_history, run, persist>>

\* UndoRedoManager.push(state), lines 62-63.
HPush(state) ==
    /\ nops < budget
    /\ LET h == UM_push(undo_stack, redo_stack, state, max_history)
       IN  /\ undo_stack' = h.undo_stack
           /\ redo_stack' = h.redo_stack
    /\ pushlog' = IF pushlog.fresh THEN [pushlog EXCEPT !.pushed = Append(@, state)]
                  ELSE pushlog
    /\ Record(Call("push"))
    /\ HistoryFrame

\* UndoRedoManager.undo, lines 67-71.
HUndo ==
    /\ nops < budget
    /\ IF undo_stack # <<>>
       THEN LET h == UM_undo(undo_stack, redo_stack, max_history)
            IN  /\ undo_stack' = h.undo_stack
                /\ redo_stack' = h.redo_stack
       ELSE UNCHANGED <<undo_stack, redo_stack>>
    /\ pushlog' = [pushlog EXCEPT !.fresh = FALSE]
    /\ Record([Call("undo") EXCEPT !.ok = (undo_stack # <<>>)])
    /\ HistoryFrame

\* UndoRedoManager.redo, lines 75-79.
HRedo ==
    /\ nops < budget
    /\ IF redo_stack # <<>>
       THEN LET h == UM_redo(undo_stack, redo_stack, max_history)
            IN  /\ undo_stack' = h.undo_stack
                /\ redo_stack' = h.redo_stack
       ELSE UNCHANGED <<undo_stack, redo_stack>>
    /\ pushlog' = [pushlog EXCEPT !.fresh = FALSE]
    /\ Record([Call("redo") EXCEPT !.ok = (redo_stack # <<>>)])
    /\ HistoryFrame

\* UndoRedoManager.clear, lines 91-92.
HClear ==
    /\ nops < budget
    /\ undo_stack' = <<>>
    /\ redo_stack' = <<>>
    /\ pushlog' = [pushed |-> <<>>, fresh |-> TRUE]
    /\ Record(Call("clear"))
    /\ HistoryFrame

NextHistory ==
    \/ \E st \in StateInputs : HPush(st)
    \/ HUndo
    \/ HRedo
    \/ HClear

SpecHistory == InitHistory /\ [][NextHistory]_vars

\* ------------------------------------------------------------------ SearchEngine alone

\* SearchEngine(), lines 99-101, and the arguments of the find_all calls made
\* on it (kept in last); the editor variables stay as built.
InitEngine ==
    /\ InitFields(FALSE, MaxFindOps, MaxHistory)
    /\ \E t \in EngineTexts, p \in EnginePatterns, b \in BOOLEAN :
            last = [NoCall EXCEPT !.text = t, !.pattern = p, !.case_sensitive = b]

\* SearchEngine.find_all(text, pattern, case_sensitive), lines 116-125.
EFindAll(text, pattern, cs) ==
    /\ nops < budget
    /\ last_search' = pattern
    /\ case_sensitive' = cs
    /\ Record([Call("find_all") EXCEPT !.text = text, !.pattern = pattern,
                                       !.case_sensitive = cs,
                                       !.result = find_all(text, pattern, cs)])
    /\ UNCHANGED <<content, cursor_position, is_modified, current_state, history, tag_index,
                   modification_callbacks, on_auto_save, last_save_time, stop_auto_save,
                   lock, main_pc, worker_pc, run, persist, pushlog>>

NextEngine == EFindAll(last.text, last.pattern, last.case_sensitive)

SpecEngine == InitEngine /\ [][NextEngine]_vars

\* ------------------------------------------------------------------ search and replace

\* The editor without auto-save: the caller loads a text, then searches it and
\* replaces in it.
InitSearch == InitEditor(FALSE, MaxSearchOps, MaxHistory)

NextSearch ==
    \/ \E c \in SearchTexts : SetContent(c, TRUE)
    \/ \E p \in SearchPatterns, b \in BOOLEAN : Search(p, b)
    \/ \E p \in SearchPatterns, f \in FromPositions : SearchNext(p, f)
    \/ \E p \in SearchPatterns, r \in SearchReplacements, b \in BOOLEAN : Replace(p, r, b)

SpecSearch == InitSearch /\ [][NextSearch]_vars

\* ------------------------------------------------------------------ TagManager alone

\* TagManager(), lines 176-177; the editor variables stay as built.
InitTags == InitEditor(FALSE, MaxTagOps, MaxHistory)

TagFrame == UNCHANGED <<content, cursor_position, is_modified, current_state, history,
                        case_sensitive, last_search, modification_callbacks, on_auto_save,
                        last_save_time, stop_auto_save, lock, main_pc, worker_pc, run,
                        persist, pushlog>>

\* TagManager.add_tag(tag), lines 189-193.
TAddTag(tag) ==
    /\ nops < budget
    /\ Len(TM_add_tag(tag_index, tag)) <= MaxTags
    /\ tag_index' = TM_add_tag(tag_index, tag)
    /\ Record([Call("add_tag") EXCEPT !.tag = tag,
                                      !.ok = (tag # "" /\ ~HasTag(tag_index, tag))])
    /\ TagFrame

\* TagManager.remove_tag(tag), lines 205-209.
TRemoveTag(tag) ==
    /\ nops < budget
    /\ tag_index' = TM_remove_tag(tag_index, tag)
    /\ Record([Call("remove_tag") EXCEPT !.tag = tag, !.ok = HasTag(tag_index, tag)])
    /\ TagFrame

\* TagManager.increment_tag_usage(tag), lines 217-218.
TIncrementTagUsage(tag) ==
    /\ nops < budget
    /\ \A i \in 1..Len(tag_index) : tag_index[i][1] = tag => tag_index[i][2] < MaxCount
    /\ tag_index' = TM_increment_tag_usage(tag_index, tag)
    /\ Record([Call("increment_tag_usage") EXCEPT !.tag = tag])
    /\ TagFrame

\* TagManager.get_tags_by_frequency(limit), lines 222-225.
TGetTagsByFrequency(limit) ==
    /\ nops < budget
    /\ Record([Call("get_tags_by_frequency") EXCEPT
                   !.limit = limit, !.result = get_tags_by_frequency(tag_index, limit)])
    /\ UNCHANGED tag_index
    /\ TagFrame

NextTags ==
    \/ \E t \in TagNames : TAddTag(t)
    \/ \E t \in TagNames : TRemoveTag(t)
    \/ \E t \in TagNames : TIncrementTagUsage(t)
    \/ \E n \in LimitInputs : TGetTagsByFrequency(n)

SpecTags == InitTags /\ [][NextTags]_vars

\* ------------------------------------------------------------------ properties

\* The step is the foreground caller making the call op.
CallStep(op) == nops' = nops + 1 /\ last'.op = op

EditOps == {"set_content", "insert_text", "delete_range"}

\* C1: in a state where undo() has just succeeded, redo() leaves the content
\* and the cursor position equal to what they were just before that undo().
C1_UndoRedoRoundTrip ==
    [][(last.op = "undo" /\ last.ok /\ CallStep("redo"))
        => (content' = last.before.content
            /\ cursor_position' = last.before.cursor_position)]_vars

\* The latest n editing calls of the run left save_state at its default.
LastDefault(n) == \A i \in (Len(run.pre) - n + 1)..Len(run.pre) : run.pre[i].save_state

\* C2 as stated: after n calls of set_content (save_state left at its
\* default), insert_text and delete_range and then n calls of undo, the
\* content is the one before the first of the n calls.
C2_UndoRestoresOriginal ==
    \A n \in 1..Len(run.pre) :
        (run.undos = n /\ LastDefault(n))
            => content = run.pre[Len(run.pre) - n + 1].content

\* The latest n editing calls of the run each pushed an undo entry.
LastPushed(n) == \A i \in (Len(run.pre) - n + 1)..Len(run.pre) : run.pre[i].pushed

\* C2 amended: after n <= max_history editing calls that each record history
\* (insert_text, delete_range, set_content with save_state true and a content
\* that differs from the current one) and then n calls of undo, the content
\* is the one before the first of the n calls.
C2_UndoRestoresPushed ==
    \A n \in 1..Len(run.pre) :
        (run.undos = n /\ n <= max_history /\ LastPushed(n))
            => content = run.pre[Len(run.pre) - n + 1].content

\* Two recorded edits were made and then undone by two undo calls.
C2_Witness ==
    /\ Len(run.pre) >= 2
    /\ run.undos = 2
    /\ max_history >= 2
    /\ LastPushed(2)
    /\ last.op = "undo"
    /\ run.pre[Len(run.pre) - 1].content # run.pre[Len(run.pre)].content

\* C3: a redo() made right after a content-changing set_content, insert_text,
\* delete_range or replace call that itself came right after a successful
\* undo() returns False.
C3_RedoFailsAfterEdit ==
    (last.op = "redo" /\ last.prev.kind \in {"edit", "replace"} /\ last.prev.changed
        /\ last.prev.after_undo)
        => ~last.ok

\* C4: replace with a valid pattern that matches nowhere in the content
\* returns count 0 and leaves content, is_modified and both history stacks as
\* they were.
C4_ReplaceNoMatchFrame ==
    [][(CallStep("replace") /\ ValidPattern(last'.pattern)
            /\ find_all(content, last'.pattern, FALSE) = <<>>)
        => (last'.count = 0
            /\ UNCHANGED <<content, is_modified, undo_stack, redo_stack>>)]_vars

\* C5: with the non-failing save callback configured (since before the
\* pending modification was made, as a callback supplied when the editor is
\* set up is), when shutdown() was called with the buffer modified and has
\* returned, that modification was handed to the save callback exactly once,
\* by the worker or by shutdown, and is_modified is false.
C5_ShutdownPersistsOnce ==
    (main_pc = "idle" /\ last.op = "shutdown" /\ last.ok /\ last.modified0
        /\ persist.steady)
        => (persist.calls = 1 /\ persist.raised = 0 /\ persist.arg = content
            /\ ~is_modified)

\* shutdown() of a modified buffer has returned while the worker was about to
\* save the same modification.
C5_Witness ==
    /\ main_pc = "idle"
    /\ last.op = "shutdown"
    /\ last.ok
    /\ last.modified0
    /\ persist.steady
    /\ worker_pc = "save"
    /\ persist.calls = 1

\* C6: the undo stack never holds more than max_history entries, and after
\* only pushes onto an empty manager it holds the latest max_history of the
\* states pushed, in push order.
C6_HistoryCapacity ==
    /\ Len(undo_stack) <= max_history
    /\ pushlog.fresh
        => undo_stack = LastN(pushlog.pushed, max_history)

\* max_history + 1 states were pushed onto an empty manager.
C6_Witness ==
    /\ pushlog.fresh
    /\ max_history >= 2
    /\ Len(pushlog.pushed) = max_history + 1
    /\ pushlog.pushed[1] # pushlog.pushed[2]

\* The step is the foreground save() entering its body / ending.
SaveStep == CallStep("save")

SaveEnds == (SaveStep /\ main_pc' = "idle") \/ (main_pc = "save_in" /\ main_pc' = "idle")

Configured == on_auto_save # None

\* C7 as stated: save() of a modified buffer with a callback configured
\* invokes the callback once with the content and ends with is_modified
\* false; save() of an unmodified buffer does not invoke it; two save() calls
\* in a row invoke it at most once.
C7_SaveOnce ==
    [][/\ (SaveStep /\ is_modified /\ Configured)
            => (persist'.calls = persist.calls + 1 /\ persist'.arg = content)
       /\ (SaveStep /\ ~is_modified) => persist' = persist
       /\ SaveEnds => (~is_modified' /\ content' = content)
       /\ (SaveStep /\ last.op = "save")
            => last.cb_calls + last'.cb_calls <= 1]_vars

\* C7 amended: the same, for save() calls whose callback returns normally:
\* such a call ends with is_modified false, and of two save() calls in a row
\* the first of which returned normally only one invokes the callback.
C7_SaveOnceUnlessRaised ==
    [][/\ (SaveStep /\ is_modified /\ Configured)
            => (persist'.calls = persist.calls + 1 /\ persist'.arg = content)
       /\ (SaveStep /\ ~is_modified) => persist' = persist
       /\ (SaveEnds /\ ~last'.raised) => (~is_modified' /\ content' = content)
       /\ (SaveStep /\ last.op = "save" /\ ~last.raised)
            => last.cb_calls + last'.cb_calls <= 1]_vars

\* A save() that invoked the callback has returned, and a second save() right
\* after it has returned without invoking it.
C7_Witness ==
    /\ main_pc = "idle"
    /\ last.op = "save"
    /\ last.ok
    /\ last.cb_calls = 0
    /\ last.prev.kind = "save"
    /\ last.prev.ok
    /\ last.prev.cb_calls = 1
    /\ persist.arg = content
    /\ ~is_modified

\* The step is the foreground caller entering the body of save(), from
\* save() or from shutdown().
MainSaveStep == SaveStep \/ (main_pc = "sd_save" /\ main_pc' # "sd_save")

\* C8: when the save callback raises in save() or in the save of shutdown(),
\* the call ends with the error, is_modified is still true and
\* last_save_time is unchanged.
C8_SaveErrorPropagates ==
    [][(MainSaveStep /\ is_modified /\ Configured /\ CallbackRaises(on_auto_save))
        => (last'.raised /\ main_pc' = "idle" /\ lock' = "free"
            /\ is_modified' /\ last_save_time' = last_save_time
            /\ content' = content)]_vars

\* shutdown() ended with the error of the save callback, after an earlier
\* save had stamped last_save_time.
C8_Witness ==
    /\ main_pc = "idle"
    /\ last.op = "shutdown"
    /\ last.raised
    /\ is_modified
    /\ last_save_time > 0
    /\ persist.raised >= 1

\* The calls that apply a mutation: the three edits always, undo, redo and
\* replace when they report success.
Mutated == last.op \in EditOps \/ (last.op \in {"undo", "redo", "replace"} /\ last.ok)

\* The callbacks the latest call invoked, in order.
InvokedCallbacks == [i \in 1..Len(last.calls) |-> last.calls[i].cb]

\* C9: after a mutating call, whichever registered callbacks raise, every
\* registered callback was invoked once, in registration order, the call
\* returned normally, and the mutation is applied: is_modified is true and
\* current_state holds the content and cursor of the buffer.
C9_CallbackIsolation ==
    Mutated
        => (/\ InvokedCallbacks = modification_callbacks
            /\ ~last.raised
            /\ is_modified
            /\ current_state.content = content
            /\ current_state.cursor_position = cursor_position
            /\ last.pushed => undo_stack # <<>>)

\* A mutation was made with a raising callback registered before a
\* non-raising one.
C9_Witness ==
    /\ last.op = "insert_text"
    /\ modification_callbacks = <<"cb_raise", "cb_ok">>
    /\ InvokedCallbacks = <<"cb_raise", "cb_ok">>
    /\ content # <<>>

\* C10: each registered callback is invoked exactly once by a call that
\* applies a mutation, and observes the content, cursor and current_state the
\* call leaves; no callback is invoked by a failed undo or redo or by a
\* replace that replaced nothing.
C10_CallbacksAfterMutation ==
    /\ Mutated
        => (/\ Len(last.calls) = Len(modification_callbacks)
            /\ \A i \in 1..Len(last.calls) :
                /\ last.calls[i].cb = modification_callbacks[i]
                /\ last.calls[i].content = content
                /\ last.calls[i].cursor_position = cursor_position
                /\ last.calls[i].current_state = current_state)
    /\ (last.op \in {"undo", "redo", "replace"} /\ ~last.ok) => last.calls = <<>>

\* A replace that replaced something has invoked the two registered callbacks.
C10_Witness ==
    /\ last.op = "replace"
    /\ last.ok
    /\ last.count >= 1
    /\ Len(last.calls) = 2
    /\ last.changed

\* C11: undo() on an empty undo stack (redo() on an empty redo stack) returns
\* False and leaves content, cursor position, is_modified, current_state and
\* both stacks as they were; otherwise it returns True, moves the most recent
\* entry of its stack, and only that entry, onto the other stack, and the
\* content and the cursor are those of that entry.
C11_UndoRedoSoftFailure ==
    [][/\ (CallStep("undo") /\ undo_stack = <<>>)
            => (~last'.ok /\ UNCHANGED <<content, cursor_position, is_modified,
                                         current_state, undo_stack, redo_stack>>)
       /\ (CallStep("redo") /\ redo_stack = <<>>)
            => (~last'.ok /\ UNCHANGED <<content, cursor_position, is_modified,
                                         current_state, undo_stack, redo_stack>>)
       /\ (CallStep("undo") /\ undo_stack # <<>>)
            => LET top == undo_stack[Len(undo_stack)]
               IN  /\ last'.ok
                   /\ undo_stack' = SubSeq(undo_stack, 1, Len(undo_stack) - 1)
                   /\ redo_stack' = Append(redo_stack, top)
                   /\ content' = top.content
                   /\ cursor_position' = top.cursor_position
       /\ (CallStep("redo") /\ redo_stack # <<>>)
            => LET top == redo_stack[Len(redo_stack)]
               IN  /\ last'.ok
                   /\ redo_stack' = SubSeq(redo_stack, 1, Len(redo_stack) - 1)
                   /\ undo_stack' = Append(undo_stack, top)
                   /\ content' = top.content
                   /\ cursor_position' = top.cursor_position]_vars

\* A redo() has succeeded right after a successful undo(), with an older
\* entry still on the undo stack below the one it moved back.
C11_Witness ==
    /\ last.op = "redo"
    /\ last.ok
    /\ last.prev.kind = "undo"
    /\ last.prev.ok
    /\ Len(undo_stack) = 2
    /\ redo_stack = <<>>
    /\ undo_stack[1] # undo_stack[2]

\* No tag name appears twice in get_all_tags().
NoDuplicateTags(ti) ==
    \A i, j \in 1..Len(ti) : get_all_tags(ti)[i] = get_all_tags(ti)[j] => i = j

\* C12: add_tag of an empty or already-present name and remove_tag of an
\* absent name return False and leave the tag table, names and usage
\* counters, as it was; after every call each name appears at most once in
\* get_all_tags().
C12_TagSoftFailures ==
    [][/\ (CallStep("add_tag") /\ (last'.tag = "" \/ HasTag(tag_index, last'.tag)))
            => (~last'.ok /\ tag_index' = tag_index)
       /\ (CallStep("remove_tag") /\ ~HasTag(tag_index, last'.tag))
            => (~last'.ok /\ tag_index' = tag_index)
       /\ NoDuplicateTags(tag_index')]_vars

\* add_tag of a name already present, whose counter is not zero, has failed.
C12_Witness ==
    /\ last.op = "add_tag"
    /\ ~last.ok
    /\ last.tag # ""
    /\ Len(tag_index) = 2
    /\ \E i \in 1..Len(tag_index) : tag_index[i][1] = last.tag /\ tag_index[i][2] >= 1

\* The place of entry j in the table sorted by count descending, ties in
\* insertion order.
Rank(ti, j) ==
    Cardinality({k \in 1..Len(ti) : ti[k][2] > ti[j][2]})
        + Cardinality({k \in 1..(j - 1) : ti[k][2] = ti[j][2]}) + 1

ByFrequency(ti) == [i \in 1..Len(ti) |-> ti[CHOOSE j \in 1..Len(ti) : Rank(ti, j) = i]]

\* C13: get_tags_by_frequency(limit) returns, for every limit >= 0 that is
\* given (0 included), the first min(limit, number of tags) pairs of the
\* table sorted by count descending with ties in insertion order, and the
\* whole sorted table when no limit is given.
C13_TagsByFrequency ==
    last.op = "get_tags_by_frequency"
        => last.result = IF last.limit = NoLimit THEN ByFrequency(tag_index)
                         ELSE SubSeq(ByFrequency(tag_index), 1,
                                     Min(last.limit, Len(tag_index)))

\* The letters c and d are the same up to case.
SameLetter(c, d) == c = d \/ {c, d} \in {{"a", "A"}, {"b", "B"}}

\* The literal pattern occurs in the text at offset i.
Occurs(text, pat, cs, i) ==
    /\ i >= 0
    /\ i + Len(pat) <= Len(text)
    /\ \A k \in 1..Len(pat) :
            IF cs THEN text[i + k] = pat[k] ELSE SameLetter(text[i + k], pat[k])

\* C16: for a literal pattern find_all returns half-open (start, end) pairs,
\* each an occurrence of the pattern (letters compared case-insensitively
\* unless case_sensitive), in strictly increasing order without overlap, and
\* every occurrence in the text is either returned or overlaps a returned
\* match that starts before it; "abcabc" with "a" gives [(0,1),(3,4)].
C16_FindAllMatches ==
    (last.op = "find_all" /\ ValidPattern(last.pattern))
        => LET r == last.result
               t == last.text
               p == last.pattern
               cs == last.case_sensitive
           IN  /\ \A k \in 1..Len(r) :
                       /\ r[k][2] = r[k][1] + Len(p)
                       /\ Occurs(t, p, cs, r[k][1])
               /\ \A k \in 1..(Len(r) - 1) : r[k][2] <= r[k + 1][1]
               /\ \A i \in 0..Len(t) :
                       Occurs(t, p, cs, i)
                           => \E k \in 1..Len(r) : r[k][1] <= i /\ i < r[k][2]
               /\ (t = <<"a", "b", "c", "a", "b", "c">> /\ p = <<"a">>)
                       => r = <<(<<0, 1>>), (<<3, 4>>)>>

\* find_all has found one match of a two-letter pattern, compared without
\* regard to case, in a text where the pattern occurs at two overlapping
\* offsets.
C16_Witness ==
    /\ last.op = "find_all"
    /\ ~last.case_sensitive
    /\ last.text = <<"a", "A", "a">>
    /\ last.pattern = <<"A", "a">>
    /\ last.result = <<(<<0, 2>>)>>

\* C14: search, search_next and replace given an invalid regular expression
\* do not raise, return the empty list, not-found and count 0, and leave
\* content, is_modified and both history stacks as they were.
C14_MalformedPatternNoMatch ==
    [][(/\ nops' = nops + 1
        /\ last'.op \in {"search", "search_next", "replace"}
        /\ ~ValidPattern(last'.pattern))
        => (/\ ~last'.raised
            /\ last'.result = <<>>
            /\ last'.count = 0
            /\ UNCHANGED <<content, is_modified, undo_stack, redo_stack>>)]_vars

\* The text with each of the matches m (increasing, non-overlapping offset
\* pairs) from the k-th on replaced by repl, starting at offset from.
RECURSIVE Splice(_, _, _, _, _)
Splice(text, m, repl, k, from) ==
    IF k > Len(m) THEN SliceFrom(text, from)
    ELSE Slice(text, from, m[k][1]) \o repl \o Splice(text, m, repl, k + 1, m[k][2])

\* The matches replace substitutes: all of them, or the leftmost only.
Substituted(m, replace_all) == IF replace_all \/ m = <<>> THEN m ELSE <<m[1]>>

\* C15: replace with a literal pattern and a replacement text in which the
\* pattern does not occur: with replace_all the count is the number of
\* non-overlapping matches in the old content and every match is
\* substituted; without it the count is 1 when there is a match and only the
\* leftmost match is substituted.  Matches are those of the engine, under
\* the case sensitivity it has recorded.
C15_ReplaceCounts ==
    [][\A p \in SearchPatterns, r \in SearchReplacements, b \in BOOLEAN :
        (Replace(p, r, b) /\ ValidPattern(p) /\ find_all(r, p, FALSE) = <<>>)
            => LET m == find_all(content, p, case_sensitive)
               IN  /\ last'.count = Len(Substituted(m, b))
                   /\ content' = Splice(content, Substituted(m, b), r, 1, 0)]_vars

\* C20: whenever the pattern matches the content at least once, replace
\* substitutes: the content becomes the substituted text, is_modified is
\* true, current_state is rebuilt from the buffer and the count is at least
\* 1, whatever the replacement text, one containing the pattern included.
C20_ReplaceApplies ==
    [][\A p \in SearchPatterns, r \in SearchReplacements, b \in BOOLEAN :
        (Replace(p, r, b) /\ find_all(content, p, case_sensitive) # <<>>)
            => LET m == find_all(content, p, case_sensitive)
               IN  /\ content' = Splice(content, Substituted(m, b), r, 1, 0)
                   /\ is_modified'
                   /\ current_state' = EditorState(content', cursor_position',
                                                   get_all_tags(tag_index'))
                   /\ last'.count >= 1]_vars

\* The step belongs to a shutdown() called right after another shutdown():
\* the second call itself, a later step of it, or a step of the worker
\* during or after it.
SecondShutdownStep ==
    \/ CallStep("shutdown") /\ last.op = "shutdown"
    \/ last.op = "shutdown" /\ last.prev.kind = "shutdown" /\ nops' = nops

\* The same, when the first shutdown() returned normally.
SecondShutdownStepAfterReturn ==
    \/ CallStep("shutdown") /\ last.op = "shutdown" /\ last.ok
    \/ last.op = "shutdown" /\ last.prev.kind = "shutdown" /\ last.prev.ok /\ nops' = nops

\* What no step of a second shutdown() does: the save callback is not
\* invoked, content, is_modified (false) and both history stacks stay as
\* they are, the stop flag is set and no error leaves the call.
ShutdownRepeats ==
    /\ persist'.calls = persist.calls
    /\ UNCHANGED <<content, is_modified, undo_stack, redo_stack>>
    /\ ~is_modified'
    /\ stop_auto_save'
    /\ ~last'.raised

\* C17 as stated: a second shutdown() with no call in between invokes the
\* save callback zero times, leaves content, is_modified (false), the stop
\* flag (set) and both stacks unchanged and returns normally.
C17_ShutdownIdempotent == [][SecondShutdownStep => ShutdownRepeats]_vars

\* C17 amended: the same, for a second shutdown() made after a shutdown()
\* that returned normally.
C17_ShutdownIdempotentAfterReturn == [][SecondShutdownStepAfterReturn => ShutdownRepeats]_vars

\* A second shutdown() has returned, after a first one that returned
\* normally and whose pending modification was handed to the save callback,
\* while the worker thread has not ended.
C17_Witness ==
    /\ main_pc = "idle"
    /\ last.op = "shutdown"
    /\ last.ok
    /\ last.prev.kind = "shutdown"
    /\ last.prev.ok
    /\ persist.calls = 1
    /\ content # <<>>
    /\ WorkerAlive

\* C18: on a stand-alone manager the redo stack is empty right after every
\* push, whatever calls came before, and it is non-empty only when the
\* latest call was an undo or a redo.
C18_PushClearsRedo ==
    /\ last.op = "push" => redo_stack = <<>>
    /\ redo_stack # <<>> => last.op \in {"undo", "redo"}

\* A state was pushed right after a successful undo, which had left an entry
\* on the redo stack.
C18_Witness ==
    /\ last.op = "push"
    /\ last.prev.kind = "undo"
    /\ last.prev.ok
    /\ undo_stack # <<>>
    /\ redo_stack = <<>>

\* C19: every call that records history (set_content with save_state true
\* and a changed content, insert_text, delete_range, replace) pushes a
\* snapshot of the buffer as it is when the call is made: its content,
\* cursor_position and tags are the content, the cursor position and the tag
\* list before the mutation, set_cursor_position, add_tag and remove_tag
\* calls made since the previous mutation included.
C19_SnapshotIsPreState ==
    [][(/\ nops' = nops + 1
        /\ last'.op \in EditOps \cup {"replace"}
        /\ last'.pushed)
        => (/\ undo_stack' # <<>>
            /\ undo_stack'[Len(undo_stack')]
                   = EditorState(content, cursor_position, get_all_tags(tag_index)))]_vars

\* C21: the case sensitivity the engine has recorded is not an input of
\* search_next and replace: each call returns, and leaves in the buffer,
\* what it does on an editor with the same content and cursor whose engine
\* has recorded the other case sensitivity.
C21_RecordedSearchStateUnused ==
    [][/\ \A p \in SearchPatterns, f \in FromPositions :
            SearchNext(p, f)
                => \A b \in BOOLEAN :
                       last'.result
                           = find_next(content, p, b,
                                       IF f = NoPosition THEN cursor_position ELSE f)
       /\ \A p \in SearchPatterns, r \in SearchReplacements, a \in BOOLEAN :
            Replace(p, r, a)
                => \A b \in BOOLEAN :
                       /\ last'.count = replace_outcome(content, p, r, a, b).count
                       /\ content' = replace_outcome(content, p, r, a, b).content]_vars

\* The worker thread has left its loop.
WorkerEnded == worker_pc \in {"done", "dead"}

\* The worker thread is in a save() call of its loop (line 294): waiting for
\* the lock, inside the callback, or past it.
WorkerSaving == worker_pc \in {"save", "save_cb", "save_in"}

\* C22: while no stop signal has been given, every state with is_modified
\* true is eventually followed by a save() call of the auto-save loop (unless
\* the buffer is saved or the stop signal given first), whatever the outcome
\* of earlier save-callback invocations; and the loop is left only after the
\* stop signal.
C22_AutoSaveLiveness ==
    /\ (is_modified /\ ~stop_auto_save)
           ~> (WorkerSaving \/ ~is_modified \/ stop_auto_save)
    /\ [](WorkerEnded => stop_auto_save)

\* C23: once the stop flag is set the worker eventually leaves its loop, and
\* a worker that finds the flag set after its sleep makes no further save()
\* call.
C23_CooperativeCancellation ==
    /\ stop_auto_save ~> WorkerEnded
    /\ [][(stop_auto_save /\ worker_pc \in {"loop", "check"})
            => worker_pc' \in {"loop", "check", "done"}]_vars

\* The worker has left its loop by reading the stop flag, after a shutdown()
\* of a modified buffer that has returned.
C23_Witness ==
    /\ worker_pc = "done"
    /\ stop_auto_save
    /\ last.op = "shutdown"
    /\ last.ok
    /\ last.modified0

\* A thread is inside the critical section of save().
MainInCritical == main_pc \in {"save_cb", "save_in", "sd_save_cb", "sd_save_in"}

WorkerInCritical == worker_pc \in {"save_cb", "save_in"}

\* The foreground caller makes a call that takes the editor lock (every call
\* but shutdown(), which takes it only in its save(), and the assignment of
\* on_auto_save).
LockedCallStep == nops' = nops + 1 /\ last'.op \notin {"shutdown", "set_on_auto_save"}

\* C24: under every interleaving of the foreground caller and the auto-save
\* worker, current_state.content equals the buffer content whenever no
\* thread holds the lock, and no two lock-guarded operations are inside their
\* critical sections at the same time: a thread inside save() owns the lock,
\* and the foreground caller enters a lock-guarded call only while the worker
\* is outside save().
C24_LockSerializedConsistency ==
    /\ [](lock = "free" => current_state.content = content)
    /\ [](~(MainInCritical /\ WorkerInCritical))
    /\ [](MainInCritical => lock = "main")
    /\ [](WorkerInCritical => lock = "worker")
    /\ [][LockedCallStep => ~WorkerInCritical]_vars

\* The worker is inside save() while shutdown() waits for the lock, the
\* buffer having been edited.
C24_Witness ==
    /\ worker_pc = "save_in"
    /\ lock = "worker"
    /\ main_pc = "sd_save"
    /\ content # <<>>
    /\ current_state.content = content

\* C25: set_content with save_state false, or with the content the buffer
\* already has, leaves both history stacks unchanged; with save_state true
\* and different content it pushes exactly one undo entry (the state before
\* the call).  Either way it sets the content and is_modified, rebuilds
\* current_state and invokes every modification callback.
C25_SetContentHistory ==
    [][\A c \in ContentInputs, b \in BOOLEAN :
          SetContent(c, b)
              => /\ content' = c
                 /\ is_modified'
                 /\ current_state' = EditorState(c, cursor_position, get_all_tags(tag_index))
                 /\ Len(last'.calls) = Len(modification_callbacks)
                 /\ IF b /\ c # content
                    THEN /\ undo_stack' = LastN(Append(undo_stack, current_state), max_history)
                         /\ undo_stack'[Len(undo_stack')] = current_state
                    ELSE UNCHANGED <<undo_stack, redo_stack>>]_vars

\* set_content(c, save_state = FALSE) with new content on an editor that has
\* history and a registered callback: no entry is pushed, the callback runs.
C25_Witness ==
    /\ last.op = "set_content"
    /\ ~last.save_state
    /\ last.changed
    /\ ~last.pushed
    /\ undo_stack # <<>>
    /\ Len(last.calls) = 1

\* C28: with the non-failing save callback configured ever since the latest
\* modification, in every state where the lock is free and is_modified is
\* false, the content most recently passed to the save callback is the
\* buffer content.
C28_NoLostUpdate ==
    (lock = "free" /\ ~is_modified /\ persist.steady) => persist.arg = content

\* The buffer was edited by set_content and the worker has since saved it
\* and gone back to its loop.
C28_Witness ==
    /\ lock = "free"
    /\ ~is_modified
    /\ persist.steady
    /\ persist.calls = 1
    /\ content # <<>>
    /\ worker_pc = "loop"
    /\ main_pc = "idle"
    /\ last.op = "set_content"

\* The text without the characters at offsets start..end-1.
WithoutSpan(text, start, end) ==
    LET keep == {k \in 1..Len(text) : ~(start < k /\ k <= end)}
    IN  [i \in 1..Cardinality(keep) |->
            text[CHOOSE k \in keep : Cardinality({j \in keep : j < k}) = i - 1]]

\* C26: delete_range(start, end) with both offsets in 0..len(content)
\* removes exactly the characters at offsets start..end-1 (none when
\* start >= end), so the length drops by max(0, end - start); the cursor is
\* set to start and exactly one undo entry is pushed.
C26_DeleteRangeRemovesSpan ==
    [][\A start \in Offsets, end \in Offsets :
          (DeleteRange(start, end) /\ start <= Len(content) /\ end <= Len(content))
              => /\ content' = WithoutSpan(content, start, end)
                 /\ Len(content') = Len(content) - Max(0, end - start)
                 /\ cursor_position' = start
                 /\ undo_stack' = LastN(Append(undo_stack, current_state), max_history)]_vars

\* C27: the cursor position is an offset of the content.
C27_CursorInsideContent ==
    0 <= cursor_position /\ cursor_position <= Len(content)

\* The number of snapshots a manager stores.
Stored == Len(undo_stack) + Len(redo_stack)

\* C29: on a stand-alone manager the two stacks hold at most max_history
\* snapshots together after any sequence of push, undo, redo and clear; a
\* successful undo moves the top of the undo stack onto the redo stack and a
\* successful redo moves it back, each leaving every other entry in place
\* and the total unchanged.
C29_HistorySize ==
    /\ [](Stored <= max_history)
    /\ [][(CallStep("undo") /\ last'.ok)
            => /\ undo_stack = Append(undo_stack', undo_stack[Len(undo_stack)])
               /\ redo_stack' = Append(redo_stack, undo_stack[Len(undo_stack)])]_vars
    /\ [][(CallStep("redo") /\ last'.ok)
            => /\ redo_stack = Append(redo_stack', redo_stack[Len(redo_stack)])
               /\ undo_stack' = Append(undo_stack, redo_stack[Len(redo_stack)])]_vars

\* A manager filled to its capacity has just undone twice in a row: both
\* snapshots are on the redo stack.
C29_Witness ==
    /\ last.op = "undo"
    /\ last.ok
    /\ max_history >= 2
    /\ Stored = max_history
    /\ Len(redo_stack) >= 2

\* C30: with one foreground caller and the auto-save worker no thread stays
\* blocked forever.  shutdown() does not own the lock while it waits for the
\* worker; a worker waiting for the lock in save() gets it; a call made by a
\* save callback back into the editor, on the thread that owns the lock,
\* goes through; and every foreground call that has started returns.
C30_DeadlockFreedom ==
    /\ [](main_pc = "sd_join" => lock # "main")
    /\ (worker_pc = "save") ~> (worker_pc # "save")
    /\ (worker_pc = "save_cb") ~> (worker_pc = "loop")
    /\ (main_pc \in {"save_cb", "sd_save_cb"}) ~> (main_pc \notin {"save_cb", "sd_save_cb"})
    /\ (main_pc # "idle") ~> (main_pc = "idle")

\* The save callback running on the worker thread is about to call back into
\* the editor while the worker owns the lock and shutdown() waits for it.
C30_Witness ==
    /\ worker_pc = "save_cb"
    /\ lock = "worker"
    /\ main_pc = "sd_save"
    /\ stop_auto_save

====
